---- MODULE Spec2Model ----
(***************************************************************************)
(* BLMM results stage: blmm_results.main (voxel grouping, ring/inner       *)
(* split, estimation and inference per subset), blmm_results.readUniqueAtB *)
(* (resolution of deduplicated product matrices) and the contrast loop of  *)
(* blmm_inference.main.                                                    *)
(*                                                                         *)
(* Python indices are kept 0-based as values; TLA+ sequences are 1-based,  *)
(* so element k of a Python array a is a[k+1] here.                        *)
(***************************************************************************)
EXTENDS Integers, Sequences, FiniteSets, TLC

\* ------------------------------------------------------------------------
\* Bounds of the model
\* ------------------------------------------------------------------------
\* v, the number of voxels of the volume (np.prod(NIFTIsize))
NVox == 4
\* largest n = X.shape[0]
MaxN == 1
\* largest q, the number of random effects
MaxQ == 1
\* MAXMEM ranges over the multiples of half a voxel's memory, up to this many
MaxMemUnits == 7
\* pnvb, the number of voxel blocks pracNumVoxelBlocks returns
NumBlocks == 2
\* at most this many voxels of a subset get a D with I + Z'Z D singular
MaxSingular == 1
\* largest number of contrasts in inputs['contrasts']
MaxContrasts == 3
\* largest number of rows of a contrast matrix
MaxRows == 5
\* largest p, the number of fixed effects (columns of a contrast)
MaxP == 2
\* largest number of rows of a store of unique product matrices
MaxUnique == 2
\* number of columns of a store of unique product matrices
RowLen == 1
\* the entries of a product matrix range over 0..MaxEntry
MaxEntry == 2
\* largest number of voxel indices handed to readUniqueAtB
MaxVinds == 2

Voxels == 0..(NVox - 1)

\* ------------------------------------------------------------------------
\* numpy helpers
\* ------------------------------------------------------------------------
Range(s) == {s[k] : k \in DOMAIN s}

Min(a, b) == IF a <= b THEN a ELSE b

\* The ascending sequence of the elements of a set of integers.
RECURSIVE SetToSeq(_)
SetToSeq(S) ==
    IF S = {} THEN <<>>
    ELSE LET m == CHOOSE x \in S : \A y \in S : x <= y
         IN <<m>> \o SetToSeq(S \ {m})

\* np.where(cond)[0] for a boolean array cond over 0-based positions:
\* the positions that hold TRUE, ascending.  cond is a function on 0..k-1.
np_where(cond) == SetToSeq({k \in DOMAIN cond : cond[k]})

\* s without its k-th element (1-based k).
RemoveAt(s, k) == SubSeq(s, 1, k - 1) \o SubSeq(s, k + 1, Len(s))

\* np.sort: ascending, duplicates kept.
RECURSIVE np_sort(_)
np_sort(s) ==
    IF s = <<>> THEN <<>>
    ELSE LET k == CHOOSE k \in 1..Len(s) : \A j \in 1..Len(s) : s[k] <= s[j]
         IN <<s[k]>> \o np_sort(RemoveAt(s, k))

\* np.argsort: the 0-based positions of s in ascending order of value
\* (ties by position).
RECURSIVE argsort_from(_, _)
argsort_from(s, left) ==
    IF left = {} THEN <<>>
    ELSE LET k == CHOOSE k \in left :
                    \A j \in left : s[k] < s[j] \/ (s[k] = s[j] /\ k <= j)
         IN <<k - 1>> \o argsort_from(s, left \ {k})

np_argsort(s) == argsort_from(s, DOMAIN s)

\* a[ix]: fancy indexing of a by a sequence of 0-based positions.
Take(a, ix) == [k \in 1..Len(ix) |-> a[ix[k] + 1]]

\* np.in1d(a, b) as a boolean array over the 0-based positions of a.
np_in1d(a, b) == [k \in 0..(Len(a) - 1) |-> a[k + 1] \in Range(b)]

\* Section i (0-based) of np.array_split(ary, n): the first Len % n sections
\* hold Len \div n + 1 elements, the others Len \div n.
ArraySplitStart(len, n, i) == i * (len \div n) + Min(i, len % n)

array_split_mut_drop(ary, n) ==
    [i \in 1..n |-> SubSeq(ary, (i - 1) * (Len(ary) \div n) + 1,
                                i * (Len(ary) \div n))]

array_split(ary, n) ==
    [i \in 1..n |-> SubSeq(ary, ArraySplitStart(Len(ary), n, i - 1) + 1,
                                ArraySplitStart(Len(ary), n, i))]

\* ------------------------------------------------------------------------
\* blmm_results.main: voxel blocks and voxel groups
\* ------------------------------------------------------------------------
\* get_amInds(amask, vb, pnvb): the indices of the analysis mask, ascending;
\* with a block number vb >= 0, block vb of their split into pnvb blocks.
get_amInds(am, b, k) ==
    LET all == np_where([x \in Voxels |-> am[x] = 1])
    IN IF b >= 0 THEN array_split(all, k)[b + 1] ELSE all

\* 10*8*(q**2), the bytes one voxel is taken to need
BytesPerVoxel(qq) == 10 * 8 * (qq * qq)

\* len(bamInds)//nvb with nvb = MAXMEM/(10*8*(q**2)) a real number:
\* floor(len / (MAXMEM / bytes)) = floor(len * bytes / MAXMEM).  The MAXMEM
\* of the model make nvb a multiple of 1/2, which a float holds exactly.
FloorDivNvb(len, mem, qq) == (len * BytesPerVoxel(qq)) \div mem

\* nvg = int(len(bamInds)//nvb+1)
NumVoxelGroups(len, mem, qq) == FloorDivNvb(len, mem, qq) + 1

\* Mask_cv: a copy of Mask, set to 0 at every voxel that is not in bamInds_cv
MaskCv_mut_keep(M, group) == M

MaskCv(M, group) ==
    [x \in Voxels |-> IF x \in Range(group) THEN M[x] ELSE 0]

\* R_inds = np.sort(np.where((Mask_cv==1)*(n_sv<n))[0])
RingInds_mut_le(Mcv, nsv, nn) ==
    np_sort(np_where([x \in Voxels |-> Mcv[x] = 1 /\ nsv[x] <= nn]))

RingInds(Mcv, nsv, nn) ==
    np_sort(np_where([x \in Voxels |-> Mcv[x] = 1 /\ nsv[x] < nn]))

\* I_inds = np.sort(np.where((Mask_cv==1)*(n_sv==n))[0])
InnerInds(Mcv, nsv, nn) ==
    np_sort(np_where([x \in Voxels |-> Mcv[x] = 1 /\ nsv[x] = nn]))

\* ix = np.argsort(np.argsort(inds));
\* inds_am = np.sort(np.where(np.in1d(amInds,inds))[0])[ix]
IndsAm_mut_local(am_inds, inds) == np_argsort(np_argsort(inds))

IndsAm(am_inds, inds) ==
    Take(np_sort(np_where(np_in1d(am_inds, inds))),
         np_argsort(np_argsort(inds)))

\* The fancy index [ix] raises IndexError when a position of ix is not a
\* position of the indexed array, i.e. when a voxel of inds is not in amInds.
IndsAmInBounds(am_inds, inds) ==
    \A k \in 1..Len(inds) :
        np_argsort(np_argsort(inds))[k] < Len(np_where(np_in1d(am_inds, inds)))

\* The output volumes blmm_inference.main writes with addBlockToNifti.
OutVols ==
    {"blmm_vox_llh", "blmm_voxesms", "blmm_vox_cov", "blmm_vox_con",
     "blmm_vox_conSE", "blmm_vox_conT_swedf", "blmm_vox_conT",
     "blmm_vox_conTlp", "blmm_vox_conF_swedf", "blmm_vox_conF",
     "blmm_vox_conFlp", "blmm_vox_conR2"}

\* addBlockToNifti(fname, block, blockInds, ...): positional write; the
\* voxels of blockInds receive a value (1 stands for a written value), the
\* others keep what they held.
addBlockToNifti(vol, inds) ==
    [x \in Voxels |-> IF x \in Range(inds) THEN 1 ELSE vol[x]]

\* ------------------------------------------------------------------------
\* State
\* ------------------------------------------------------------------------
VARIABLES
    \* blmm_results.main: inputs
    amask, Mask, n_sv, n, MAXMEM, q, vb, pnvb,
    \* blmm_results.main: locals
    amInds, bamInds, nvg, voxelGroups, cv, bamInds_cv, Mask_cv,
    R_inds, R_inds_am, I_inds, I_inds_am, fit, called,
    \* the output volumes and the position of the run
    nifti, pc,
    \* blmm_inference.main: the contrasts of inputs and the contrast loops
    contrasts, ci, nt, nf, current_nt, current_nf, blocks, ipc,
    \* blmm_results.readUniqueAtB: arguments, files and locals
    vinds, sv, uniquenessMaskVol, AtB_unique, uniquenessMask, maxM, m, AtB, rpc,
    \* blmm_results.main: the parameter count p taken from the first contrast
    \* (p_L1), the columns of the design X behind the stored products (p_X),
    \* the subset sizes and the position in the reshapes
    p_L1, p_X, v_r, v_i, spc

resultsInputs == <<amask, Mask, n_sv, n, MAXMEM, q, vb, pnvb>>
resultsBlock == <<amInds, bamInds, nvg, voxelGroups>>
resultsGroup == <<bamInds_cv, Mask_cv, R_inds, R_inds_am, I_inds, I_inds_am>>
resultsVars == <<resultsInputs, resultsBlock, resultsGroup, cv, fit, called,
                 nifti, pc>>

inferenceVars == <<contrasts, ci, nt, nf, current_nt, current_nf, blocks, ipc>>
resolverVars == <<vinds, sv, uniquenessMaskVol, AtB_unique, uniquenessMask,
                  maxM, m, AtB, rpc>>

shapeVars == <<p_L1, p_X, v_r, v_i, spc>>

vars == <<resultsVars, inferenceVars, resolverVars, shapeVars>>

\* The parameter count and the reshapes of blmm_results.main not entered
ShapeIdle == p_L1 = 0 /\ p_X = 0 /\ v_r = 0 /\ v_i = 0 /\ spc = "idle"

\* blmm_inference.main not entered
InferenceIdle ==
    /\ contrasts = <<>> /\ ci = 0 /\ nt = 0 /\ nf = 0
    /\ current_nt = 0 /\ current_nf = 0 /\ blocks = <<>> /\ ipc = "idle"

\* readUniqueAtB not entered
ResolverIdle ==
    /\ vinds = <<>> /\ sv = FALSE /\ uniquenessMaskVol = <<>>
    /\ AtB_unique = <<>> /\ uniquenessMask = <<>> /\ maxM = 0 /\ m = 0
    /\ AtB = <<>> /\ rpc = "idle"

NoFit == [subset |-> "none", cv |-> -1, singular |-> {}]

\* The state of blmm_results.main on entry, for every input in the bounds.
ResultsInit ==
    /\ amask \in [Voxels -> {0, 1}]
    /\ Mask \in [Voxels -> {0, 1}]
    /\ n \in 1..MaxN
    /\ n_sv \in [Voxels -> 0..n]
    /\ q \in 1..MaxQ
    /\ MAXMEM \in {(BytesPerVoxel(q) \div 2) * k : k \in 1..MaxMemUnits}
    /\ pnvb = NumBlocks
    /\ vb \in {-1} \cup (1..pnvb)
    /\ amInds = <<>> /\ bamInds = <<>> /\ nvg = 0 /\ voxelGroups = <<>>
    /\ cv = 0
    /\ bamInds_cv = <<>> /\ Mask_cv = [x \in Voxels |-> 0]
    /\ R_inds = <<>> /\ R_inds_am = <<>> /\ I_inds = <<>> /\ I_inds_am = <<>>
    /\ fit = NoFit
    /\ called = <<>>
    /\ nifti = [f \in OutVols |-> [x \in Voxels |-> 0]]
    /\ pc = "start"

\* ------------------------------------------------------------------------
\* blmm_results.main
\* ------------------------------------------------------------------------
\* Lines 157-181: the block of voxels and its split into computable groups.
Partition ==
    /\ pc = "start"
    /\ amInds' = get_amInds(amask, -1, pnvb)
    /\ bamInds' = get_amInds(amask, vb - 1, pnvb)
    /\ nvg' = NumVoxelGroups(Len(bamInds'), MAXMEM, q)
    /\ voxelGroups' = array_split(bamInds', nvg')
    /\ cv' = 0
    /\ pc' = "loop"
    /\ UNCHANGED <<shapeVars, inferenceVars, resolverVars, resultsInputs, resultsGroup, fit, called, nifti>>

\* Where the run goes after the ring subset of the current group.
AfterRing_mut_always(inner) == "inner_est"

AfterRing(inner) == IF Len(inner) > 0 THEN "inner_est" ELSE "next"

\* Lines 185-250: the current group, its mask, its ring and inner indices.
SplitGroup ==
    /\ pc = "loop"
    /\ cv < nvg
    /\ bamInds_cv' = voxelGroups[cv + 1]
    /\ Mask_cv' = MaskCv(Mask, bamInds_cv')
    /\ R_inds' = RingInds(Mask_cv', n_sv, n)
    /\ I_inds' = InnerInds(Mask_cv', n_sv, n)
    /\ IF IndsAmInBounds(amInds, R_inds') /\ IndsAmInBounds(amInds, I_inds')
       THEN /\ R_inds_am' = IndsAm(amInds, R_inds')
            /\ I_inds_am' = IndsAm(amInds, I_inds')
            /\ pc' = IF Len(R_inds') > 0 THEN "ring_est"
                                          ELSE AfterRing(I_inds')
       ELSE /\ R_inds_am' = <<>>
            /\ I_inds_am' = <<>>
            /\ pc' = "IndexError"
    /\ UNCHANGED <<shapeVars, inferenceVars, resolverVars, resultsInputs, resultsBlock, cv, fit, called, nifti>>

\* blmm_estimate.main returns beta, sigma2 and D for the voxels of inds; D
\* is whatever the estimator converged to, and for the voxels of `singular`
\* it makes I + Z'Z D singular.
Estimate(subset, inds, to) ==
    \E bad \in SUBSET Range(inds) :
        /\ Cardinality(bad) <= MaxSingular
        /\ fit' = [subset |-> subset, cv |-> cv, singular |-> bad]
        /\ called' = Append(called, <<"estimate", subset, cv, inds>>)
        /\ pc' = to
        /\ UNCHANGED <<shapeVars, inferenceVars, resolverVars, resultsInputs, resultsBlock, resultsGroup, cv, nifti>>

\* blmm_inference.main(inputs, ..., inds, beta, D, sigma2, ...): line 43
\* inverts I + Z'Z D for the whole stack of voxels, and np.linalg.inv raises
\* LinAlgError when one matrix of the stack is singular; otherwise every
\* output volume is written at inds.
InferenceMain(subset, inds, to) ==
    /\ called' = Append(called, <<"inference", fit.subset, fit.cv, inds>>)
    /\ IF fit.singular \cap Range(inds) # {}
       THEN /\ pc' = "LinAlgError"
            /\ nifti' = nifti
       ELSE /\ pc' = to
            /\ nifti' = [f \in OutVols |-> addBlockToNifti(nifti[f], inds)]
    /\ UNCHANGED <<shapeVars, inferenceVars, resolverVars, resultsInputs, resultsBlock, resultsGroup, cv, fit>>

\* Lines 261-272
EstimateRing == pc = "ring_est" /\ Estimate("r", R_inds, "ring_inf")

\* Line 277
InferenceRing == pc = "ring_inf" /\ InferenceMain("r", R_inds, AfterRing(I_inds))

\* Lines 279-292
EstimateInner == pc = "inner_est" /\ Estimate("i", I_inds, "inner_inf")

\* Line 295
InferenceInner == pc = "inner_inf" /\ InferenceMain("i", I_inds, "next")

\* Line 185: the next value of cv
NextGroup ==
    /\ pc = "next"
    /\ cv' = cv + 1
    /\ pc' = "loop"
    /\ UNCHANGED <<shapeVars, inferenceVars, resolverVars, resultsInputs, resultsBlock, resultsGroup, fit, called, nifti>>

\* Line 297: the loop is over
Finish ==
    /\ pc = "loop"
    /\ cv >= nvg
    /\ pc' = "done"
    /\ UNCHANGED <<shapeVars, inferenceVars, resolverVars, resultsInputs, resultsBlock, resultsGroup, cv, fit, called, nifti>>

ResultsNext ==
    \/ Partition
    \/ SplitGroup
    \/ EstimateRing
    \/ InferenceRing
    \/ EstimateInner
    \/ InferenceInner
    \/ NextGroup
    \/ Finish

\* blmm_results.main not entered
ResultsIdle ==
    /\ amask = [x \in Voxels |-> 0] /\ Mask = [x \in Voxels |-> 0]
    /\ n = 1 /\ n_sv = [x \in Voxels |-> 0]
    /\ q = 1 /\ MAXMEM = BytesPerVoxel(1) /\ pnvb = 1 /\ vb = -1
    /\ amInds = <<>> /\ bamInds = <<>> /\ nvg = 0 /\ voxelGroups = <<>>
    /\ cv = 0
    /\ bamInds_cv = <<>> /\ Mask_cv = [x \in Voxels |-> 0]
    /\ R_inds = <<>> /\ R_inds_am = <<>> /\ I_inds = <<>> /\ I_inds_am = <<>>
    /\ fit = NoFit
    /\ called = <<>>
    /\ nifti = [f \in OutVols |-> [x \in Voxels |-> 0]]
    /\ pc = "idle"

\* ------------------------------------------------------------------------
\* blmm_inference.main: the contrast loops
\* ------------------------------------------------------------------------
\* np.array(blmm_eval(vector)) is known by its shape: a list of p numbers
\* gives a 1-dimensional array of shape (p,), a list of r lists of p numbers
\* a 2-dimensional array of shape (r, p).
Vector(p) == [ndim |-> 1, shape |-> <<p>>]
Matrix(r, p) == [ndim |-> 2, shape |-> <<r, p>>]

ContrastArrays(p) == {Vector(p)} \cup {Matrix(r, p) : r \in 1..MaxRows}

\* Lines 105-108, the counting pass: a contrast counts as T when L.ndim == 1
CountsAsT_mut_rows(L) == L.ndim = 1 \/ L.shape[1] = 1

CountsAsT(L) == L.ndim = 1

\* Lines 122-126, the processing pass: statType
StatType(L) == IF L.ndim = 1 THEN "T" ELSE "F"

\* The volumes written for a T contrast (lines 138-155), in order
TVols == <<"blmm_vox_con", "blmm_vox_conSE", "blmm_vox_conT_swedf",
           "blmm_vox_conT", "blmm_vox_conTlp">>

\* The volumes written for an F contrast (lines 170-182), in order
FVols == <<"blmm_vox_conF_swedf", "blmm_vox_conF", "blmm_vox_conFlp",
           "blmm_vox_conR2">>

\* One addBlockToNifti call of the contrast loop: the file, volc, the number
\* of frames of dim and the contrast (0-based i) it is made for.
Block(fname, volc, frames, i) ==
    [fname |-> fname, volc |-> volc, frames |-> frames, i |-> i]

\* The state of blmm_inference.main on entry, for every contrast list in the
\* bounds; the contrasts of one list have the same number of columns.
InferenceInit ==
    /\ \E p \in 1..MaxP : \E c \in 1..MaxContrasts :
          contrasts \in [1..c -> ContrastArrays(p)]
    /\ ci = 0 /\ nt = 0 /\ nf = 0 /\ current_nt = 0 /\ current_nf = 0
    /\ blocks = <<>>
    /\ ipc = "entry"

\* Lines 36-96: the maps that do not depend on a contrast, each written at
\* frame 0 (volc=None for the covariance map), then nt = nf = 0.
InferencePrelude ==
    /\ ipc = "entry"
    /\ blocks' = <<Block("blmm_vox_llh", 0, 1, -1),
                   Block("blmm_voxesms", 0, 1, -1),
                   Block("blmm_vox_cov", -1, 0, -1)>>
    /\ nt' = 0
    /\ nf' = 0
    /\ ci' = 0
    /\ ipc' = "count"
    /\ UNCHANGED <<shapeVars, resultsVars, resolverVars, contrasts, current_nt, current_nf>>

\* Lines 99-108: one iteration of the counting loop
CountContrast ==
    /\ ipc = "count"
    /\ ci < Len(contrasts)
    /\ LET L == contrasts[ci + 1]
       IN /\ nt' = IF CountsAsT(L) THEN nt + 1 ELSE nt
          /\ nf' = IF CountsAsT(L) THEN nf ELSE nf + 1
    /\ ci' = ci + 1
    /\ UNCHANGED <<shapeVars, resultsVars, resolverVars, contrasts, current_nt, current_nf,
                   blocks, ipc>>

\* Lines 110-112: the counting loop is over
StartProcessing ==
    /\ ipc = "count"
    /\ ci >= Len(contrasts)
    /\ current_nt' = 0
    /\ current_nf' = 0
    /\ ci' = 0
    /\ ipc' = "process"
    /\ UNCHANGED <<shapeVars, resultsVars, resolverVars, contrasts, nt, nf, blocks>>

\* Lines 115-185: one iteration of the processing loop
ProcessContrast ==
    /\ ipc = "process"
    /\ ci < Len(contrasts)
    /\ LET L == contrasts[ci + 1]
           statType == StatType(L)
       IN IF statType = "T"
          THEN /\ blocks' = blocks \o
                    [k \in 1..Len(TVols) |-> Block(TVols[k], current_nt, nt, ci)]
               /\ current_nt' = current_nt + 1
               /\ current_nf' = current_nf
          ELSE /\ blocks' = blocks \o
                    [k \in 1..Len(FVols) |-> Block(FVols[k], current_nf, nf, ci)]
               /\ current_nf' = current_nf + 1
               /\ current_nt' = current_nt
    /\ ci' = ci + 1
    /\ UNCHANGED <<shapeVars, resultsVars, resolverVars, contrasts, nt, nf, ipc>>

\* Line 185: the processing loop is over
InferenceReturn ==
    /\ ipc = "process"
    /\ ci >= Len(contrasts)
    /\ ipc' = "done"
    /\ UNCHANGED <<shapeVars, resultsVars, resolverVars, contrasts, ci, nt, nf, current_nt,
                   current_nf, blocks>>

InferenceNext ==
    \/ InferencePrelude
    \/ CountContrast
    \/ StartProcessing
    \/ ProcessContrast
    \/ InferenceReturn

InitInference == ResultsIdle /\ InferenceInit /\ ResolverIdle /\ ShapeIdle

SpecInference == InitInference /\ [][InferenceNext]_vars

\* ------------------------------------------------------------------------
\* blmm_results.readUniqueAtB
\* ------------------------------------------------------------------------
Rows == [1..RowLen -> 0..MaxEntry]

\* np.amax of the uniqueness mask volume
np_amax(vol) == CHOOSE a \in {vol[x] : x \in DOMAIN vol} :
                    \A x \in DOMAIN vol : vol[x] <= a

\* Line 372, range(1,maxM+1): the last value of m
LastM_mut_short(mx) == mx - 1

LastM(mx) == mx

\* Line 359, uniquenessMask[vinds[0]]: the label of the first requested voxel
InnerLabel_mut_last(vol, inds) == vol[inds[Len(inds)]]

InnerLabel(vol, inds) == vol[inds[0 + 1]]

\* AtB_unique[(m-1),:]
UniqueRow(store, mm) == store[(mm - 1) + 1]

\* The local AtB before any assignment to it (a row has RowLen > 0 entries)
Unbound == <<>>

\* np.zeros((vcurrent, AtB_unique.shape[1]))
np_zeros(rows, cols) == [k \in 1..rows |-> [j \in 1..cols |-> 0]]

\* The state of readUniqueAtB on entry: a store of M unique rows, a
\* uniqueness mask with labels 0..M, the voxel indices asked for (at least
\* one, as both callers ask under v_r > 0 or v_i > 0) and sv.
ResolverInit ==
    /\ \E M \in 1..MaxUnique :
          /\ AtB_unique \in [1..M -> Rows]
          /\ uniquenessMaskVol \in [Voxels -> 0..M]
    /\ \E len \in 1..MaxVinds : vinds \in [1..len -> Voxels]
    /\ sv \in BOOLEAN
    /\ uniquenessMask = <<>> /\ maxM = 0 /\ m = 0 /\ AtB = <<>>
    /\ rpc = "entry"

\* Lines 338-369: the labels of the requested voxels (sv) or of the first
\* one (not sv); AtB is bound to zeros under sv only.
ReadUniqueAtBEntry ==
    /\ rpc = "entry"
    /\ maxM' = np_amax(uniquenessMaskVol)
    /\ uniquenessMask' =
          IF sv THEN [k \in 1..Len(vinds) |-> uniquenessMaskVol[vinds[k]]]
                ELSE InnerLabel(uniquenessMaskVol, vinds)
    /\ AtB' = IF sv THEN np_zeros(Len(vinds), RowLen) ELSE Unbound
    /\ m' = 1
    /\ rpc' = "fill"
    /\ UNCHANGED <<shapeVars, resultsVars, inferenceVars, vinds, sv, uniquenessMaskVol,
                   AtB_unique>>

\* Lines 372-381: one iteration of the loop over m
FillUnique ==
    /\ rpc = "fill"
    /\ m <= LastM(maxM)
    /\ AtB' =
          IF sv
          THEN [k \in 1..Len(AtB) |->
                  IF uniquenessMask[k] = m THEN UniqueRow(AtB_unique, m)
                                           ELSE AtB[k]]
          ELSE IF uniquenessMask = m THEN UniqueRow(AtB_unique, m) ELSE AtB
    /\ m' = m + 1
    /\ UNCHANGED <<shapeVars, resultsVars, inferenceVars, vinds, sv, uniquenessMaskVol,
                   AtB_unique, uniquenessMask, maxM, rpc>>

\* Line 383: return(AtB); AtB is not bound when sv is false and no m matched
ReturnAtB ==
    /\ rpc = "fill"
    /\ m > LastM(maxM)
    /\ rpc' = IF Len(AtB) = 0 THEN "UnboundLocalError" ELSE "returned"
    /\ UNCHANGED <<shapeVars, resultsVars, inferenceVars, vinds, sv, uniquenessMaskVol,
                   AtB_unique, uniquenessMask, maxM, m, AtB>>

ResolverNext ==
    \/ ReadUniqueAtBEntry
    \/ FillUnique
    \/ ReturnAtB

InitResolver == ResultsIdle /\ InferenceIdle /\ ResolverInit /\ ShapeIdle

SpecResolver == InitResolver /\ [][ResolverNext]_vars

\* ------------------------------------------------------------------------
\* blmm_results.main: the number of parameters and the reshapes
\* ------------------------------------------------------------------------
\* L1 = np.array(str2vec(inputs['contrasts'][0]['c1']['vector'])): the array
\* the first contrast denotes, a vector of length p or an r x p matrix.
L1Array(cons) == cons[1]

\* p = L1.shape[0]
NumParams(L1) == L1.shape[1]

RECURSIVE Product(_)
Product(shape) ==
    IF Len(shape) = 0 THEN 1 ELSE shape[1] * Product(SubSeq(shape, 2, Len(shape)))

\* a.reshape(shape) of an array of `size` entries succeeds exactly when the
\* shape holds as many entries; numpy raises ValueError otherwise.
CanReshape(size, shape) == size = Product(shape)

\* Lines 229 and 239-243: the ring products; XtY_r is reshaped for every
\* v_r, ZtX_r and XtX_r only under 'if v_r'.
RingReshapes(vr, qq, pX, pp) ==
    /\ CanReshape(vr * pX, <<vr, pp, 1>>)
    /\ vr > 0 => /\ CanReshape(vr * qq * pX, <<vr, qq, pp>>)
                 /\ CanReshape(vr * pX * pX, <<vr, pp, pp>>)

\* Lines 234 and 245-250: the inner products; readUniqueAtB returns one row
\* for the inner subset, reshaped to [1,q,p] and [1,p,p].
InnerReshapes(vi, qq, pX, pp) ==
    /\ CanReshape(vi * pX, <<vi, pp, 1>>)
    /\ vi > 0 => /\ CanReshape(qq * pX, <<1, qq, pp>>)
                 /\ CanReshape(pX * pX, <<1, pp, pp>>)

\* The inputs of the parameter count: a contrast list over a design of p_X
\* columns, and a voxel group with v_r ring and v_i inner voxels.
ShapeInit ==
    /\ \E pX \in 1..MaxP : \E c \in 1..MaxContrasts :
          /\ contrasts \in [1..c -> ContrastArrays(pX)]
          /\ p_X = pX
    /\ ci = 0 /\ nt = 0 /\ nf = 0 /\ current_nt = 0 /\ current_nf = 0
    /\ blocks = <<>> /\ ipc = "idle"
    /\ v_r \in 0..NVox
    /\ v_i \in 0..(NVox - v_r)
    /\ p_L1 = 0
    /\ spc = "entry"

\* Lines 112-116: "Get number of parameters"
GetNumParams ==
    /\ spc = "entry"
    /\ p_L1' = NumParams(L1Array(contrasts))
    /\ spc' = "params"
    /\ UNCHANGED <<resultsVars, inferenceVars, resolverVars, p_X, v_r, v_i>>

\* Lines 228-250: the products of the group are read and reshaped with p
ReshapeProducts ==
    /\ spc = "params"
    /\ spc' = IF /\ RingReshapes(v_r, q, p_X, p_L1)
                 /\ InnerReshapes(v_i, q, p_X, p_L1)
              THEN "reshaped" ELSE "ValueError"
    /\ UNCHANGED <<resultsVars, inferenceVars, resolverVars, p_L1, p_X, v_r, v_i>>

ShapeNext == GetNumParams \/ ReshapeProducts

InitShape == ResultsIdle /\ ShapeInit /\ ResolverIdle

SpecShape == InitShape /\ [][ShapeNext]_vars

Init == ResultsInit /\ InferenceIdle /\ ResolverIdle /\ ShapeIdle

Spec == Init /\ [][ResultsNext]_vars

\* ------------------------------------------------------------------------
\* Properties of blmm_results.main
\* ------------------------------------------------------------------------
\* The concatenation of a sequence of sequences.
RECURSIVE Concat(_)
Concat(ss) == IF ss = <<>> THEN <<>> ELSE Head(ss) \o Concat(Tail(ss))

\* ceil(a / b) for naturals a and b > 0
CeilDiv(a, b) == (a + b - 1) \div b

\* floor(MAXMEM / (10*8*q^2)), the voxels per group the specification names
VoxelsPerGroup == MAXMEM \div BytesPerVoxel(q)

Partitioned == pc # "start"

\* C1 (as stated): R_inds and I_inds are disjoint and their union is exactly
\* the set of voxels of the current group bamInds_cv.
C1_RingInnerCoverGroup ==
    /\ Range(R_inds) \cap Range(I_inds) = {}
    /\ Range(R_inds) \cup Range(I_inds) = Range(bamInds_cv)

\* C1 (amended): R_inds and I_inds are disjoint and their union is exactly
\* the set of voxels of the current group at which Mask is 1 (and n_sv <= n);
\* a voxel of the group at which Mask is 0 is in neither.
C1_RingInnerCoverMaskedGroup ==
    /\ Range(R_inds) \cap Range(I_inds) = {}
    /\ Range(R_inds) \cup Range(I_inds) =
          {x \in Range(bamInds_cv) : Mask[x] = 1 /\ n_sv[x] <= n}

\* A group with a ring voxel, an inner voxel and a voxel that Mask leaves out.
C1_Witness ==
    /\ Len(R_inds) > 0
    /\ Len(I_inds) > 0
    /\ \E x \in Range(bamInds_cv) : Mask[x] = 0

\* C2: the number of voxel groups is ceil(|bamInds| / voxels_per_group) with
\* voxels_per_group = floor(MAXMEM / (10*8*q^2)); when |bamInds| is an exact
\* multiple of voxels_per_group it is |bamInds| / voxels_per_group.
C2_GroupCountIsCeil ==
    (Partitioned /\ VoxelsPerGroup >= 1) =>
        nvg = CeilDiv(Len(bamInds), VoxelsPerGroup)

\* C3: every voxel group holds at most floor(MAXMEM / (10*8*q^2)) voxels.
C3_GroupSizeWithinMemory ==
    \A g \in 1..Len(voxelGroups) : Len(voxelGroups[g]) <= VoxelsPerGroup

\* C4: the voxel groups are contiguous slices of bamInds that partition it:
\* there are nvg of them, their concatenation in order is bamInds, and no
\* voxel is in two groups.
C4_GroupsPartitionBlock ==
    Partitioned =>
        /\ Len(voxelGroups) = nvg
        /\ Concat(voxelGroups) = bamInds
        /\ \A g, h \in 1..Len(voxelGroups) :
              g # h => Range(voxelGroups[g]) \cap Range(voxelGroups[h]) = {}

\* Several groups of unequal sizes.
C4_Witness ==
    /\ Partitioned
    /\ nvg >= 2
    /\ \E g, h \in 1..Len(voxelGroups) :
          Len(voxelGroups[g]) > Len(voxelGroups[h]) /\ Len(voxelGroups[h]) > 0

\* C9: at every point of a run, every voxel that holds a value other than
\* the fill value 0 in an output volume is in the analysis mask and in the
\* block bamInds, and so is every voxel index handed to estimation or
\* inference as inds.
C9_WritesInsideAnalysisMask ==
    /\ \A f \in OutVols : \A x \in Voxels :
          nifti[f][x] # 0 => (amask[x] = 1 /\ x \in Range(bamInds))
    /\ \A k \in 1..Len(called) :
          \A x \in Range(called[k][4]) : amask[x] = 1 /\ x \in Range(bamInds)

\* Both subsets of a group written, in a block that is not the whole
\* analysis mask, with a voxel of Mask outside the analysis mask.
C9_Witness ==
    /\ pc = "next"
    /\ Len(R_inds) > 0
    /\ Len(I_inds) > 0
    /\ \E x \in Range(R_inds) : nifti["blmm_vox_llh"][x] = 1
    /\ \E x \in Range(I_inds) : nifti["blmm_vox_conF"][x] = 1
    /\ \E x \in Voxels : Mask[x] = 1 /\ amask[x] = 0
    /\ \E x \in Voxels : Mask[x] = 1 /\ amask[x] = 1 /\ x \notin Range(bamInds)

\* C10: a voxel whose I + Z'Z D is singular never aborts the run.
C10_DegenerateVoxelNeverAborts == pc # "LinAlgError"

\* The ring and inner voxels of group g (0-based), from the inputs alone.
RingOfGroup(g) ==
    SetToSeq({x \in Range(voxelGroups[g + 1]) : Mask[x] = 1 /\ n_sv[x] < n})

InnerOfGroup(g) ==
    SetToSeq({x \in Range(voxelGroups[g + 1]) : Mask[x] = 1 /\ n_sv[x] = n})

\* The calls a subset of group g is due: none when it is empty, else its
\* estimation and then the inference on that estimation's result.
CallsDue(subset, g, inds) ==
    IF inds = <<>> THEN <<>>
    ELSE <<<<"estimate", subset, g, inds>>, <<"inference", subset, g, inds>>>>

\* The calls due for the groups g, g+1, ..., nvg-1, in order.
RECURSIVE CallsFrom(_)
CallsFrom(g) ==
    IF g >= Len(voxelGroups) THEN <<>>
    ELSE CallsDue("r", g, RingOfGroup(g)) \o CallsDue("i", g, InnerOfGroup(g))
            \o CallsFrom(g + 1)

IsPrefix(s, t) == Len(s) <= Len(t) /\ s = SubSeq(t, 1, Len(s))

\* C11: the groups are processed one after another in index order; in each
\* group estimation then inference run for the ring subset and then for the
\* inner subset; inference gets the estimates of the same subset and group;
\* a subset is processed if and only if it is non-empty.  The calls made so
\* far are at every point the first calls of that sequence, the call under
\* way belongs to group cv, and a run that ends has made them all.
C11_GroupsAndSubsetsInOrder ==
    /\ IsPrefix(called, CallsFrom(0))
    /\ \A k \in 1..Len(called) : called[k][3] <= cv
    /\ pc \in {"ring_inf", "inner_inf"} =>
          (fit.cv = cv /\ fit.subset = IF pc = "ring_inf" THEN "r" ELSE "i")
    /\ pc = "done" => called = CallsFrom(0)

\* A finished run over two groups, each with a ring and an inner subset.
C11_Witness ==
    /\ pc = "done"
    /\ Len(called) = 8
    /\ called[5] = <<"estimate", "r", 1, RingOfGroup(1)>>
    /\ called[8] = <<"inference", "i", 1, InnerOfGroup(1)>>

\* C12: for each subset the analysis-mask index list has the length of the
\* full-volume index list and is rank-matched to it: amInds[R_inds_am[i]] =
\* R_inds[i] and amInds[I_inds_am[i]] = I_inds[i] for every i, with R_inds
\* and I_inds ascending.
C12_AmIndicesRankMatched ==
    pc \notin {"start", "IndexError"} =>
        /\ Len(R_inds_am) = Len(R_inds)
        /\ Len(I_inds_am) = Len(I_inds)
        /\ \A k \in 1..Len(R_inds) : amInds[R_inds_am[k] + 1] = R_inds[k]
        /\ \A k \in 1..Len(I_inds) : amInds[I_inds_am[k] + 1] = I_inds[k]
        /\ \A j, k \in 1..Len(R_inds) : j < k => R_inds[j] < R_inds[k]
        /\ \A j, k \in 1..Len(I_inds) : j < k => I_inds[j] < I_inds[k]

\* A group whose ring and inner voxels sit at positions of amInds that are
\* neither their ranks within the subset nor their full-volume indices.
C12_Witness ==
    /\ pc = "next"
    /\ Len(R_inds) >= 1
    /\ Len(I_inds) >= 1
    /\ R_inds_am[1] >= 1
    /\ I_inds_am[1] >= 1
    /\ R_inds_am[1] # R_inds[1]

\* ------------------------------------------------------------------------
\* Properties of the parameter count of blmm_results.main
\* ------------------------------------------------------------------------
\* C13: the p that results main derives from the first contrast equals the
\* number of columns of the contrasts, the true number of fixed effects,
\* whether the first contrast is a T vector or an F matrix.
C13_ParamCountIsContrastColumns ==
    spc \in {"params", "reshaped", "ValueError"} => p_L1 = p_X

\* ------------------------------------------------------------------------
\* Properties of blmm_inference.main
\* ------------------------------------------------------------------------
\* The contrasts before position i (0-based) that the processing pass
\* handles as type t.
SameTypeBefore(i, t) ==
    Cardinality({j \in 0..(i - 1) : StatType(contrasts[j + 1]) = t})

\* The blocks written for a contrast
ContrastBlocks == {k \in 1..Len(blocks) : blocks[k].i >= 0}

\* The type a block was written as: T volumes or F volumes
WrittenAs(b) == IF b.fname \in Range(TVols) THEN "T" ELSE "F"

\* C5: a contrast that is a vector or a matrix with a single row is handled
\* as a T contrast, a matrix with more than one row as an F contrast, and the
\* counting pass agrees with the processing pass.
C5_ClassifiedByRows ==
    /\ \A k \in ContrastBlocks :
          LET L == contrasts[blocks[k].i + 1]
          IN WrittenAs(blocks[k]) =
                IF L.ndim = 1 \/ L.shape[1] = 1 THEN "T" ELSE "F"
    /\ ipc \in {"process", "done"} =>
          nt = Cardinality({j \in 1..Len(contrasts) :
                  contrasts[j].ndim = 1 \/ contrasts[j].shape[1] = 1})

\* C6: the outputs of contrast i are written to the frame whose index is the
\* number of contrasts of the same type before i; the frame index is below
\* the frame count of the volume (nt for T volumes, nf for F volumes); the T
\* and F counters advance independently, and after the loop current_nt = nt
\* and current_nf = nf.
C6_FrameIsRankAmongSameType ==
    /\ \A k \in ContrastBlocks :
          LET b == blocks[k]
          IN /\ b.volc = SameTypeBefore(b.i, WrittenAs(b))
             /\ b.volc < b.frames
             /\ b.frames = IF WrittenAs(b) = "T" THEN nt ELSE nf
    /\ ipc = "process" =>
          /\ current_nt = SameTypeBefore(ci, "T")
          /\ current_nf = SameTypeBefore(ci, "F")
    /\ ipc = "done" => (current_nt = nt /\ current_nf = nf)

\* A finished run over T and F contrasts interleaved: a T contrast after an
\* F contrast after a T contrast.
C6_Witness ==
    /\ ipc = "done"
    /\ Len(contrasts) >= 3
    /\ StatType(contrasts[1]) = "T"
    /\ StatType(contrasts[2]) = "F"
    /\ StatType(contrasts[3]) = "T"
    /\ \E k \in ContrastBlocks : blocks[k].i = 2 /\ blocks[k].volc = 1

\* ------------------------------------------------------------------------
\* Properties of readUniqueAtB
\* ------------------------------------------------------------------------
\* The label of the k-th requested voxel
LabelOf(k) == uniquenessMaskVol[vinds[k]]

ZeroRow == [j \in 1..RowLen |-> 0]

\* C7: with sv true the result has one row per requested voxel, in the order
\* of vinds; the row of a voxel with label lab in 1..M is unique row lab, the
\* row of a voxel with label 0 is all zeros; so the rows resolved for the
\* voxels of one label are that label's row of the store.
C7_ResolvedRowsMatchStore ==
    /\ sv => rpc # "UnboundLocalError"
    /\ (sv /\ rpc = "returned") =>
        /\ Len(AtB) = Len(vinds)
        /\ \A k \in 1..Len(vinds) :
              AtB[k] = IF LabelOf(k) = 0 THEN ZeroRow
                                         ELSE AtB_unique[LabelOf(k)]
        /\ \A lab \in 1..Len(AtB_unique) :
              {AtB[k] : k \in {j \in 1..Len(vinds) : LabelOf(j) = lab}}
                 \subseteq {AtB_unique[lab]}

\* A resolved result over voxels given out of order, one without a label
\* and one whose label is the last row of a store of distinct non-zero rows.
C7_Witness ==
    /\ sv
    /\ rpc = "returned"
    /\ Len(vinds) >= 2
    /\ vinds[1] > vinds[2]
    /\ LabelOf(2) = 0
    /\ LabelOf(1) = Len(AtB_unique)
    /\ Len(AtB_unique) >= 2
    /\ AtB_unique[1] # AtB_unique[2]
    /\ AtB_unique[2] # ZeroRow

\* C8 (as stated): with sv false the call returns a row only when all the
\* requested voxels carry the same label, and fails otherwise.
C8_FailsOnInconsistentLabels ==
    (~sv /\ rpc = "returned") =>
        \A j, k \in 1..Len(vinds) : LabelOf(j) = LabelOf(k)

\* C8 (amended): with sv false only the label of vinds[0] is read; when it is
\* in 1..maxM the call returns that label's row of the store, unreplicated,
\* whatever the labels of the other requested voxels; when it is 0 no row is
\* bound and the return fails.  The labels are never compared.
C8_ReturnsRowOfFirstLabel ==
    /\ (~sv /\ rpc = "returned") =>
          /\ LabelOf(1) \in 1..maxM
          /\ AtB = AtB_unique[LabelOf(1)]
    /\ (~sv /\ rpc = "UnboundLocalError") => LabelOf(1) = 0

\* A row returned for voxels whose labels differ, the rows differing too.
C8_Witness ==
    /\ ~sv
    /\ rpc = "returned"
    /\ Len(vinds) >= 2
    /\ LabelOf(1) # LabelOf(2)
    /\ LabelOf(2) >= 1
    /\ AtB_unique[LabelOf(1)] # AtB_unique[LabelOf(2)]
    /\ LabelOf(1) = maxM

====
